---- MODULE Spec2Model ----
(***************************************************************************)
(* A model of db.py (tinyDB_util): a command-line tool that loads a        *)
(* directory of JSON sample files into a TinyDB store, extracts the        *)
(* store's entries back to files, lists the stored ids and deletes         *)
(* entries.                                                                *)
(*                                                                         *)
(* Strings (ids, file names, paths) are sequences of one-character         *)
(* strings, so that str.replace, the substring test, the path the code     *)
(* builds and the sort order are computed as the code computes them.       *)
(* A JSON object is a function from field names to values.  The store is   *)
(* the sequence of its documents in insertion order (the order TinyDB      *)
(* iterates and searches in).                                              *)
(***************************************************************************)
EXTENDS Integers, Sequences, FiniteSets, TLC

VARIABLES
    os,     \* the platform (os.name): "nt" or "posix"
    dirs,   \* the directories that exist, each a path string
    fs,     \* the files: a function from <<directory, name>> to a content
    db,     \* the TinyDB store: the sequence of its documents
    pre,    \* the store as it was before the last call
    last,   \* the call that was made last, with its arguments
    out,    \* what that call printed, in order
    err,    \* the exception that call raised, "" when it returned
    pc,     \* main's position; "idle" when the functions are called directly
    args,   \* main's parsed arguments
    calls   \* how many calls a bounded exploration has made

vars == <<os, dirs, fs, db, pre, last, out, err, pc, args, calls>>

----------------------------------------------------------------------------
(* Bounds *)

\* --jsonIndent and save_sample's json_indent range over 0..MaxIndent
MaxIndent == 1

\* the store file a run opens holds at most MaxInitDocs documents
MaxInitDocs == 2

\* SpecFiles follows the store and the files through MaxCalls calls
MaxCalls == 2

----------------------------------------------------------------------------
(* Strings *)

JSON == <<".", "j", "s", "o", "n">>

BS == "\\"

\* the code point of each character the model uses
Code(c) ==
    CASE c = "." -> 46
      [] c = "/" -> 47
      [] c = BS  -> 92
      [] c = "a" -> 97
      [] c = "b" -> 98
      [] c = "c" -> 99
      [] c = "j" -> 106
      [] c = "n" -> 110
      [] c = "o" -> 111
      [] c = "s" -> 115
      [] c = "t" -> 116
      [] c = "x" -> 120
      [] c = "z" -> 122

\* Python's  a < b  on str: lexicographic by code point
RECURSIVE StrLess(_, _)
StrLess(a, b) ==
    IF b = <<>> THEN FALSE
    ELSE IF a = <<>> THEN TRUE
    ELSE IF a[1] # b[1] THEN Code(a[1]) < Code(b[1])
    ELSE StrLess(Tail(a), Tail(b))

\* whether s starts with the literal .json
StartsWithJSON(s) == Len(s) >= Len(JSON) /\ SubSeq(s, 1, Len(JSON)) = JSON

\* '.json' in f
contains_json(f) ==
    \E i \in 1..Len(f) : StartsWithJSON(SubSeq(f, i, Len(f)))

\* f.replace('.json', ''): every non-overlapping occurrence, left to right
RECURSIVE replace_json(_)
replace_json(f) ==
    IF f = <<>> THEN <<>>
    ELSE IF StartsWithJSON(f) THEN replace_json(SubSeq(f, Len(JSON) + 1, Len(f)))
    ELSE <<f[1]>> \o replace_json(Tail(f))

\* f'{samples_dir}\\{f}': the directory, one backslash, the name.  What file
\* that path names is the platform's to say (Resolve below).
JoinPath(samples_dir, f) == samples_dir \o <<BS>> \o f

----------------------------------------------------------------------------
(* The filesystem, as open(), os.listdir, os.path.exists and os.makedirs   *)
(* see it.                                                                 *)

\* the characters that separate path components on the platform
Separators(o) == IF o = "nt" THEN {BS, "/"} ELSE {"/"}

MaxOf(S) == CHOOSE m \in S : \A k \in S : k <= m

\* the <<directory, name>> a path string names; the working directory is <<>>
Resolve(o, path) ==
    LET cut == {i \in 1..Len(path) : path[i] \in Separators(o)}
    IN  IF cut = {} THEN <<(<<>>), path>>
        ELSE <<SubSeq(path, 1, MaxOf(cut) - 1),
               SubSeq(path, MaxOf(cut) + 1, Len(path))>>

\* os.listdir(d): the names of the files in d
ListDir(f, d) == {p[2] : p \in {q \in DOMAIN f : q[1] = d}}

\* open(path, 'w') followed by a write of content
WriteFile(f, at, content) ==
    [p \in DOMAIN f \cup {at} |-> IF p = at THEN content ELSE f[p]]

\* the text json.dump writes: the object, laid out with the given indent
\* (0: on one line)
Dumped(doc, layout) == [kind |-> "object", data |-> doc, layout |-> layout]

\* a file that json.load rejects, or whose JSON is no object (data['id'] = ...
\* raises): either way load_sample raises before it reads the store
Malformed == [kind |-> "malformed", data |-> [x |-> 0], layout |-> 0]

----------------------------------------------------------------------------
(* Messages *)

Msg(m, i, n) == [msg |-> m, id |-> i, n |-> n]

----------------------------------------------------------------------------
(* The store operations *)

\* db.search(q.id == entry_id)
get_entries(d, entry_id) == SelectSeq(d, LAMBDA e : e.id = entry_id)

\* entry_exists with  > 1  for  > 0
entry_exists_more_than_one(d, entry_id) == Len(get_entries(d, entry_id)) > 1

entry_exists(d, entry_id) == Len(get_entries(d, entry_id)) > 0

truncate(d) == [db |-> <<>>, out |-> <<Msg("DB truncated", <<>>, 0)>>]

\* remove_entry that removes the first document that matches and no other
remove_entry_first(d, entry_id) ==
    IF Len(SelectSeq(d, LAMBDA e : e.id = entry_id)) = 0
    THEN [db |-> d, out |-> <<Msg("no data found for ID", entry_id, 0)>>]
    ELSE LET k == CHOOSE i \in 1..Len(d) :
                    d[i].id = entry_id /\ \A j \in 1..(i - 1) : d[j].id # entry_id
         IN  [db |-> SubSeq(d, 1, k - 1) \o SubSeq(d, k + 1, Len(d)), out |-> <<>>]

\* remove_entry whose query matches every document
remove_entry_all(d, entry_id) ==
    IF Len(SelectSeq(d, LAMBDA e : e.id = entry_id)) = 0
    THEN [db |-> d, out |-> <<Msg("no data found for ID", entry_id, 0)>>]
    ELSE [db |-> <<>>, out |-> <<>>]

\* db.remove(q.id == entry_id) removes every document that matches
remove_entry(d, entry_id) ==
    IF ~entry_exists(d, entry_id)
    THEN [db |-> d, out |-> <<Msg("no data found for ID", entry_id, 0)>>]
    ELSE [db |-> SelectSeq(d, LAMBDA e : e.id # entry_id), out |-> <<>>]

\* get_entry_ids without res.sort()
get_entry_ids_unsorted(d) == [k \in 1..Len(d) |-> d[k].id]

get_entry_ids(d) ==
    SortSeq([k \in 1..Len(d) |-> d[k].id], LAMBDA a, b : StrLess(a, b))

list_ids(d) ==
    LET ids == get_entry_ids(d)
    IN  IF ids = <<>> THEN <<Msg("the DB is empty", <<>>, 0)>>
        ELSE <<Msg("IDs found:", <<>>, Len(ids))>>
             \o [k \in 1..Len(ids) |-> Msg("  ", ids[k], 0)]

\* data.setdefault('id', entry_id): an id the file gives is kept
SetIdIfAbsent(data, entry_id) ==
    [k \in DOMAIN data \cup {"id"} |->
        IF k = "id" /\ "id" \notin DOMAIN data THEN entry_id ELSE data[k]]

\* data['id'] = entry_id
SetId(data, entry_id) ==
    [k \in DOMAIN data \cup {"id"} |-> IF k = "id" THEN entry_id ELSE data[k]]

\* db.insert(data)
insert(d, data) == Append(d, data)

\* load_sample that inserts without removing the entry it overwrites
load_sample_no_remove(o, f, d, json_file, entry_id, keep_existing) ==
    LET at == Resolve(o, json_file)
    IN  IF at \notin DOMAIN f
        THEN [db |-> d, out |-> <<>>, err |-> "FileNotFoundError"]
        ELSE IF f[at].kind # "object"
        THEN [db |-> d, out |-> <<>>, err |-> "JSONDecodeError"]
        ELSE
          LET data == SetId(f[at].data, entry_id)
              inserted == Msg("inserted", entry_id, 0)
          IN  IF keep_existing /\ entry_exists(d, entry_id)
              THEN [db |-> d,
                    out |-> <<Msg("warning: already exists, will not add", entry_id, 0)>>,
                    err |-> ""]
              ELSE IF entry_exists(d, entry_id)
              THEN [db |-> insert(d, data),
                    out |-> <<Msg("warning: overwriting", entry_id, 0), inserted>>,
                    err |-> ""]
              ELSE [db |-> insert(d, data), out |-> <<inserted>>, err |-> ""]

load_sample(o, f, d, json_file, entry_id, keep_existing) ==
    LET at == Resolve(o, json_file)
    IN  IF at \notin DOMAIN f
        THEN [db |-> d, out |-> <<>>, err |-> "FileNotFoundError"]
        ELSE IF f[at].kind # "object"
        THEN [db |-> d, out |-> <<>>, err |-> "JSONDecodeError"]
        ELSE
          LET data == SetId(f[at].data, entry_id)
              inserted == Msg("inserted", entry_id, 0)
          IN  IF keep_existing
              THEN IF entry_exists(d, entry_id)
                   THEN [db |-> d,
                         out |-> <<Msg("warning: already exists, will not add", entry_id, 0)>>,
                         err |-> ""]
                   ELSE [db |-> insert(d, data), out |-> <<inserted>>, err |-> ""]
              ELSE IF entry_exists(d, entry_id)
                   THEN LET r == remove_entry(d, entry_id)
                        IN  [db |-> insert(r.db, data),
                             out |-> <<Msg("warning: overwriting", entry_id, 0)>>
                                     \o r.out \o <<inserted>>,
                             err |-> ""]
                   ELSE [db |-> insert(d, data), out |-> <<inserted>>, err |-> ""]

\* f.replace('.json', '', 1): the first occurrence only
RECURSIVE replace_json_once(_)
replace_json_once(f) ==
    IF f = <<>> THEN <<>>
    ELSE IF StartsWithJSON(f) THEN SubSeq(f, Len(JSON) + 1, Len(f))
    ELSE <<f[1]>> \o replace_json_once(Tail(f))

\* sample_id with the first .json removed and no other
sample_id_first(f) == replace_json_once(f)

\* the id load_samples loads a file under
sample_id(f) == replace_json(f)

\* the loop of load_samples over the listing, stopped by the first exception
RECURSIVE load_loop(_, _, _, _, _, _, _)
load_loop(o, f, d, samples_dir, files, keep_existing, printed) ==
    IF files = <<>> THEN [db |-> d, out |-> printed, err |-> ""]
    ELSE IF contains_json(Head(files))
    THEN LET r == load_sample(o, f, d, JoinPath(samples_dir, Head(files)),
                              sample_id(Head(files)), keep_existing)
         IN  IF r.err # "" THEN [db |-> r.db, out |-> printed \o r.out, err |-> r.err]
             ELSE load_loop(o, f, r.db, samples_dir, Tail(files), keep_existing,
                            printed \o r.out)
    ELSE load_loop(o, f, d, samples_dir, Tail(files), keep_existing,
                   printed \o <<Msg("warning: has no json extension, skipping",
                                    Head(files), 0)>>)

\* files: os.listdir's answer, in the order it gave it
load_samples(o, ds, f, d, samples_dir, truncate_db, keep_existing, files) ==
    LET t == IF truncate_db THEN truncate(d) ELSE [db |-> d, out |-> <<>>]
        printed == <<Msg("loading samples from", samples_dir, 0)>> \o t.out
    IN  IF samples_dir \notin ds
        THEN [db |-> t.db, out |-> printed, err |-> "FileNotFoundError"]
        ELSE load_loop(o, f, t.db, samples_dir, files, keep_existing, printed)

save_sample(o, ds, f, d, samples_dir, i, json_indent) ==
    LET data == get_entries(d, i)
        at == Resolve(o, JoinPath(samples_dir, i \o JSON))
        printed == IF Len(data) > 1
                   THEN <<Msg("error: invalid number of entries for ID", i, 0)>>
                   ELSE <<>>
    IN  IF data = <<>>
        THEN [fs |-> f, out |-> <<Msg("no data found for ID", i, 0)>>, err |-> ""]
        ELSE IF at[1] \notin ds
        THEN [fs |-> f, out |-> printed, err |-> "FileNotFoundError"]
        ELSE [fs |-> WriteFile(f, at, Dumped(data[1],
                                 IF json_indent > 0 THEN json_indent ELSE 0)),
              out |-> printed, err |-> ""]

\* the loop of save_samples over the ids, stopped by the first exception
RECURSIVE save_loop(_, _, _, _, _, _, _, _)
save_loop(o, ds, f, d, samples_dir, ids, json_indent, printed) ==
    IF ids = <<>> THEN [fs |-> f, out |-> printed, err |-> ""]
    ELSE LET r == save_sample(o, ds, f, d, samples_dir, Head(ids), json_indent)
         IN  IF r.err # "" THEN [fs |-> r.fs, out |-> printed \o r.out, err |-> r.err]
             ELSE save_loop(o, ds, r.fs, d, samples_dir, Tail(ids), json_indent,
                            printed \o r.out)

save_samples(o, ds, f, d, samples_dir, json_indent) ==
    LET saving == Msg("saving samples to", samples_dir, 0)
        made == ds \cup {samples_dir}
        r == save_loop(o, made, f, d, samples_dir, get_entry_ids(d), json_indent,
                       IF samples_dir \in ds
                       THEN <<saving, Msg("warning: directory already exists",
                                          samples_dir, 0)>>
                       ELSE <<saving>>)
    IN  [fs |-> r.fs, dirs |-> made, out |-> r.out, err |-> r.err]

----------------------------------------------------------------------------
(* The inputs *)

A == <<"a">>
B == <<"b">>
TXT == <<"n", ".", "t", "x", "t">>

\* the samples directory and the directory extracted to
SamplesDir == <<"s">>
OutDir == <<"o">>
DirArgs == {SamplesDir, OutDir}

\* the files the samples directory holds, with what each contains
SampleFiles ==
    (B \o JSON         :> Dumped([x |-> 2], 0)) @@
    (A \o JSON \o JSON :> Dumped([y |-> 3, id |-> <<"z", "z">>], 0)) @@
    (TXT               :> Malformed)

\* the ids calls are made with
IdArgs == {A, B}

\* the files load_sample is called on: each sample file and each extracted
\* file, named with either separator
PathArgs ==
    {SamplesDir \o <<sep>> \o n : sep \in {BS, "/"}, n \in DOMAIN SampleFiles}
    \cup {OutDir \o <<sep>> \o i \o JSON : sep \in {BS, "/"}, i \in IdArgs}

IndentArgs == 0..MaxIndent

\* the orders os.listdir may give the names in
Orders(S) ==
    {q \in [1..Cardinality(S) -> S] : \A i, j \in 1..Cardinality(S) : q[i] = q[j] => i = j}

\* the record of a call
Call(op, path, id, keep, trunc, indent, files) ==
    [op |-> op, path |-> path, id |-> id, keep |-> keep, trunc |-> trunc,
     indent |-> indent, files |-> files]

NoCall == Call("", <<>>, <<>>, FALSE, FALSE, 0, <<>>)

\* argparse's result; byIDGiven: --byID is on the command line
ArgSets ==
    [loadData : BOOLEAN, extractData : BOOLEAN, deleteData : BOOLEAN,
     listIDs : BOOLEAN, truncateDB : BOOLEAN, keepExisting : BOOLEAN,
     byIDGiven : BOOLEAN, byID : {<<>>, A}, samplesDir : DirArgs,
     jsonIndent : IndentArgs]

NoArgs ==
    [loadData |-> FALSE, extractData |-> FALSE, deleteData |-> FALSE,
     listIDs |-> FALSE, truncateDB |-> FALSE, keepExisting |-> FALSE,
     byIDGiven |-> FALSE, byID |-> <<>>, samplesDir |-> SamplesDir, jsonIndent |-> 0]

----------------------------------------------------------------------------
(* The initial states *)

\* the platform, and whether the output directory exists
InitFiles ==
    /\ os \in {"nt", "posix"}
    /\ fs = [p \in {<<SamplesDir, n>> : n \in DOMAIN SampleFiles} |-> SampleFiles[p[2]]]
    /\ dirs \in {{<<>>, SamplesDir}, {<<>>, SamplesDir, OutDir}}
    /\ last = NoCall
    /\ out = <<>>
    /\ err = ""

\* the documents a store file written earlier (or by another tool) may hold
InitDocs ==
    {[id |-> A, x |-> 2], [id |-> A, y |-> 3], [id |-> B, x |-> 2]}

RECURSIVE SeqsUpTo(_, _)
SeqsUpTo(S, n) ==
    IF n = 0 THEN {<<>>}
    ELSE SeqsUpTo(S, n - 1) \cup {Append(q, e) : q \in SeqsUpTo(S, n - 1), e \in S}

\* a new store file
Init ==
    /\ InitFiles
    /\ db = <<>>
    /\ pre = db
    /\ pc = "idle"
    /\ args = NoArgs
    /\ calls = 0

\* TinyDB(db_file) on a file that exists: no unique index is enforced
InitAny ==
    /\ InitFiles
    /\ db \in SeqsUpTo(InitDocs, MaxInitDocs)
    /\ pre = db
    /\ pc = "idle"
    /\ args = NoArgs
    /\ calls = 0

----------------------------------------------------------------------------
(* The functions called directly, one action each *)

Truncate ==
    /\ pc = "idle"
    /\ db' = truncate(db).db
    /\ out' = truncate(db).out
    /\ err' = ""
    /\ pre' = db
    /\ last' = Call("truncate", <<>>, <<>>, FALSE, FALSE, 0, <<>>)
    /\ UNCHANGED <<os, dirs, fs, pc, args>>

Remove ==
    /\ pc = "idle"
    /\ \E id \in IdArgs :
         /\ db' = remove_entry(db, id).db
         /\ out' = remove_entry(db, id).out
         /\ last' = Call("remove", <<>>, id, FALSE, FALSE, 0, <<>>)
    /\ err' = ""
    /\ pre' = db
    /\ UNCHANGED <<os, dirs, fs, pc, args>>

ListIds ==
    /\ pc = "idle"
    /\ out' = list_ids(db)
    /\ err' = ""
    /\ pre' = db
    /\ last' = Call("listIds", <<>>, <<>>, FALSE, FALSE, 0, <<>>)
    /\ UNCHANGED <<os, dirs, fs, db, pc, args>>

LoadOne ==
    /\ pc = "idle"
    /\ \E path \in PathArgs, id \in IdArgs, keep \in BOOLEAN :
         LET r == load_sample(os, fs, db, path, id, keep)
         IN  /\ db' = r.db
             /\ out' = r.out
             /\ err' = r.err
             /\ last' = Call("loadOne", path, id, keep, FALSE, 0, <<>>)
    /\ pre' = db
    /\ UNCHANGED <<os, dirs, fs, pc, args>>

LoadAll ==
    /\ pc = "idle"
    /\ \E dir \in DirArgs, trunc \in BOOLEAN, keep \in BOOLEAN :
         \E files \in Orders(ListDir(fs, dir)) :
           LET r == load_samples(os, dirs, fs, db, dir, trunc, keep, files)
           IN  /\ db' = r.db
               /\ out' = r.out
               /\ err' = r.err
               /\ last' = Call("loadAll", dir, <<>>, keep, trunc, 0, files)
    /\ pre' = db
    /\ UNCHANGED <<os, dirs, fs, pc, args>>

SaveOne ==
    /\ pc = "idle"
    /\ \E dir \in DirArgs, id \in IdArgs, indent \in IndentArgs :
         LET r == save_sample(os, dirs, fs, db, dir, id, indent)
         IN  /\ fs' = r.fs
             /\ out' = r.out
             /\ err' = r.err
             /\ last' = Call("saveOne", dir, id, FALSE, FALSE, indent, <<>>)
    /\ pre' = db
    /\ UNCHANGED <<os, dirs, db, pc, args>>

SaveAll ==
    /\ pc = "idle"
    /\ \E dir \in DirArgs, indent \in IndentArgs :
         LET r == save_samples(os, dirs, fs, db, dir, indent)
         IN  /\ fs' = r.fs
             /\ dirs' = r.dirs
             /\ out' = r.out
             /\ err' = r.err
             /\ last' = Call("saveAll", dir, <<>>, FALSE, FALSE, indent, <<>>)
    /\ pre' = db
    /\ UNCHANGED <<os, db, pc, args>>

\* the calls that read and change the store
Next ==
    \/ Truncate /\ UNCHANGED calls
    \/ Remove /\ UNCHANGED calls
    \/ ListIds /\ UNCHANGED calls
    \/ LoadOne /\ UNCHANGED calls
    \/ LoadAll /\ UNCHANGED calls

Spec == Init /\ [][Next]_vars

SpecAny == InitAny /\ [][Next]_vars

\* the calls that move entries between the store and the files, MaxCalls of
\* them in a row
Counted == calls < MaxCalls /\ calls' = calls + 1

NextFiles ==
    \/ Counted /\ LoadOne
    \/ Counted /\ LoadAll
    \/ Counted /\ SaveOne
    \/ Counted /\ SaveAll

SpecFiles == InitAny /\ [][NextFiles]_vars

----------------------------------------------------------------------------
(* main: one invocation, from the parsed arguments to the exit.  An        *)
(* exception nobody catches ends the run.                                  *)

\* `if args.byID:` holds for a --byID that is given and not empty
by_id(a) == a.byIDGiven /\ a.byID # <<>>

\* one run: any store file, any arguments
InitMain ==
    /\ InitFiles
    /\ db \in SeqsUpTo(InitDocs, MaxInitDocs)
    /\ pre = db
    /\ pc = "load"
    /\ args \in {a \in ArgSets : ~a.byIDGiven => a.byID = <<>>}
    /\ calls = 0

\* where main goes after a step that left exception e
After(e, next) == IF e = "" THEN next ELSE "done"

MainLoad ==
    /\ pc = "load"
    /\ \/ /\ args.loadData
          /\ \E files \in Orders(ListDir(fs, args.samplesDir)) :
               LET r == load_samples(os, dirs, fs, db, args.samplesDir,
                                     args.truncateDB, args.keepExisting, files)
               IN  /\ db' = r.db
                   /\ out' = r.out
                   /\ err' = r.err
                   /\ pc' = After(r.err, "extract")
                   /\ last' = Call("loadAll", args.samplesDir, <<>>,
                                   args.keepExisting, args.truncateDB, 0, files)
          /\ pre' = db
          /\ UNCHANGED <<os, dirs, fs, args, calls>>
       \/ /\ ~args.loadData
          /\ pc' = "extract"
          /\ UNCHANGED <<os, dirs, fs, db, pre, last, out, err, args, calls>>

MainExtract ==
    /\ pc = "extract"
    /\ \/ /\ args.extractData
          /\ by_id(args)
          /\ LET r == save_sample(os, dirs, fs, db, args.samplesDir, args.byID,
                                  args.jsonIndent)
             IN  /\ fs' = r.fs
                 /\ out' = r.out
                 /\ err' = r.err
                 /\ pc' = After(r.err, "delete")
          /\ last' = Call("saveOne", args.samplesDir, args.byID, FALSE, FALSE,
                          args.jsonIndent, <<>>)
          /\ pre' = db
          /\ UNCHANGED <<os, dirs, db, args, calls>>
       \/ /\ args.extractData
          /\ ~by_id(args)
          /\ LET r == save_samples(os, dirs, fs, db, args.samplesDir, args.jsonIndent)
             IN  /\ fs' = r.fs
                 /\ dirs' = r.dirs
                 /\ out' = r.out
                 /\ err' = r.err
                 /\ pc' = After(r.err, "delete")
          /\ last' = Call("saveAll", args.samplesDir, <<>>, FALSE, FALSE,
                          args.jsonIndent, <<>>)
          /\ pre' = db
          /\ UNCHANGED <<os, db, args, calls>>
       \/ /\ ~args.extractData
          /\ pc' = "delete"
          /\ UNCHANGED <<os, dirs, fs, db, pre, last, out, err, args, calls>>

MainDelete ==
    /\ pc = "delete"
    /\ \/ /\ args.deleteData
          /\ by_id(args)
          /\ db' = remove_entry(db, args.byID).db
          /\ out' = remove_entry(db, args.byID).out
          /\ last' = Call("remove", <<>>, args.byID, FALSE, FALSE, 0, <<>>)
          /\ pre' = db
          /\ pc' = "list"
          /\ UNCHANGED <<os, dirs, fs, err, args, calls>>
       \/ /\ args.deleteData
          /\ ~by_id(args)
          /\ db' = truncate(db).db
          /\ out' = truncate(db).out
          /\ last' = Call("truncate", <<>>, <<>>, FALSE, FALSE, 0, <<>>)
          /\ pre' = db
          /\ pc' = "list"
          /\ UNCHANGED <<os, dirs, fs, err, args, calls>>
       \/ /\ ~args.deleteData
          /\ pc' = "list"
          /\ UNCHANGED <<os, dirs, fs, db, pre, last, out, err, args, calls>>

MainList ==
    /\ pc = "list"
    /\ \/ /\ args.listIDs
          /\ out' = list_ids(db)
          /\ last' = Call("listIds", <<>>, <<>>, FALSE, FALSE, 0, <<>>)
          /\ pre' = db
          /\ pc' = "done"
          /\ UNCHANGED <<os, dirs, fs, db, err, args, calls>>
       \/ /\ ~args.listIDs
          /\ pc' = "done"
          /\ UNCHANGED <<os, dirs, fs, db, pre, last, out, err, args, calls>>

NextMain ==
    \/ MainLoad
    \/ MainExtract
    \/ MainDelete
    \/ MainList

SpecMain == InitMain /\ [][NextMain]_vars

----------------------------------------------------------------------------
(* What the properties are stated with *)

IdsOf(d) == {d[k].id : k \in 1..Len(d)}

DocsOf(d) == {d[k] : k \in 1..Len(d)}

\* the documents of d whose id is id, in order
WithId(d, id) == SelectSeq(d, LAMBDA e : e.id = id)

\* the documents of d whose id is not id, in order
Others(d, id) == SelectSeq(d, LAMBDA e : e.id # id)

NoDuplicateIds(d) == \A i, j \in 1..Len(d) : d[i].id = d[j].id => i = j

\* the object in the file a path names
ObjectAt(path) == fs[Resolve(os, path)].data

PrintedIn(o, m) == \E k \in 1..Len(o) : o[k].msg = m

Printed(m) == PrintedIn(out, m)

\* the places where .json occurs in a name
JsonAt(f) == {i \in 1..Len(f) : i + 4 <= Len(f) /\ SubSeq(f, i, i + 4) = JSON}

HasJson(f) == JsonAt(f) # {}

MinOf(S) == CHOOSE m \in S : \A k \in S : m <= k

\* a name without its first .json
WithoutFirstJson(f) ==
    IF ~HasJson(f) THEN f
    ELSE SubSeq(f, 1, MinOf(JsonAt(f)) - 1) \o SubSeq(f, MinOf(JsonAt(f)) + 5, Len(f))

\* the characters of f at the places S, in order
RECURSIVE Pick(_, _)
Pick(f, S) ==
    IF S = {} THEN <<>> ELSE <<f[MinOf(S)]>> \o Pick(f, S \ {MinOf(S)})

\* a name without any of its .json
WithoutEveryJson(f) ==
    Pick(f, {k \in 1..Len(f) : ~\E i \in JsonAt(f) : i <= k /\ k <= i + 4})

\* the ids the last call reported as inserted or as kept, in order
ProcessedIds ==
    LET m == SelectSeq(out, LAMBDA e : e.msg \in {"inserted",
                                      "warning: already exists, will not add"})
    IN  [k \in 1..Len(m) |-> m[k].id]

\* the names the last call reported as skipped, in order
SkippedNames ==
    LET m == SelectSeq(out, LAMBDA e : e.msg = "warning: has no json extension, skipping")
    IN  [k \in 1..Len(m) |-> m[k].id]

\* the ids list_ids printed, in order
ListedIds ==
    LET m == SelectSeq(out, LAMBDA e : e.msg = "  ")
    IN  [k \in 1..Len(m) |-> m[k].id]

Ascending(q) == \A k \in 1..(Len(q) - 1) : ~StrLess(q[k + 1], q[k])

----------------------------------------------------------------------------
(* C1 *)

\* C1: starting from an empty store, after any sequence of loadOne, loadAll,
\* remove and truncate calls the store holds at most one entry per id.
C1_OneEntryPerId == NoDuplicateIds(db)

\* a load that overwrote an entry of a store holding two ids
C1_Witness ==
    /\ last.op = "loadAll"
    /\ err = ""
    /\ Printed("warning: overwriting")
    /\ IdsOf(db) = {A, B}

----------------------------------------------------------------------------
(* C2 *)

\* C2: loadOne with keepExisting on an id the store holds leaves the store as
\* it was, whatever the file contains; when the file parses, what it prints is
\* the one warning.
C2_KeepExistingKeeps ==
    (last.op = "loadOne" /\ last.keep /\ last.id \in IdsOf(pre)) =>
        /\ db = pre
        /\ err = "" => out = <<Msg("warning: already exists, will not add", last.id, 0)>>

\* such a call, on a file whose object is none of the stored ones
C2_Witness ==
    /\ last.op = "loadOne"
    /\ last.keep
    /\ last.id \in IdsOf(pre)
    /\ err = ""
    /\ SetId(ObjectAt(last.path), last.id) \notin DocsOf(db)

----------------------------------------------------------------------------
(* C3 *)

\* C3: loadOne without keepExisting on an id the store holds, when the file
\* parses, leaves exactly one entry with that id: the file's object with its
\* id field set to the id.  No field of the old entry survives and the entries
\* with other ids are as they were.
C3_OverwriteReplaces ==
    (last.op = "loadOne" /\ ~last.keep /\ last.id \in IdsOf(pre) /\ err = "") =>
        LET now == WithId(db, last.id)
            file == ObjectAt(last.path)
        IN  /\ Len(now) = 1
            /\ DOMAIN now[1] = DOMAIN file \cup {"id"}
            /\ now[1].id = last.id
            /\ \A k \in DOMAIN file \ {"id"} : now[1][k] = file[k]
            /\ Others(db, last.id) = Others(pre, last.id)

\* the old entry had a field the file lacks, the file an id field of its own,
\* and another id is stored
C3_Witness ==
    /\ last.op = "loadOne"
    /\ ~last.keep
    /\ last.id \in IdsOf(pre)
    /\ err = ""
    /\ DOMAIN WithId(pre, last.id)[1] \ DOMAIN ObjectAt(last.path) # {}
    /\ "id" \in DOMAIN ObjectAt(last.path)
    /\ ObjectAt(last.path).id # last.id
    /\ Others(db, last.id) # <<>>

----------------------------------------------------------------------------
(* C4 *)

\* C4: after a loadOne that returned, with either keepExisting, the id
\* exists; after remove(id) it does not, also when several entries had it.
C4_ExistsAfterLoadNotAfterRemove ==
    /\ (last.op = "loadOne" /\ err = "") => entry_exists(db, last.id)
    /\ last.op = "remove" => ~entry_exists(db, last.id)

\* a remove of an id that several entries had
C4_Witness ==
    /\ last.op = "remove"
    /\ Len(WithId(pre, last.id)) > 1
    /\ ~entry_exists(db, last.id)

----------------------------------------------------------------------------
(* C6 *)

\* C6, as claimed: listIds gives the ids in ascending order, as many as there
\* are distinct ids in the store.
C6_Claimed ==
    last.op = "listIds" =>
        /\ Ascending(ListedIds)
        /\ Len(ListedIds) = Cardinality(IdsOf(db))

\* C6, amended: listIds gives the ids in ascending order, one per entry of the
\* store: as many as there are distinct ids whenever no two entries share an
\* id.  The count it prints is that number, and an empty store is reported as
\* empty.
C6_SortedOnePerEntry ==
    last.op = "listIds" =>
        /\ Ascending(ListedIds)
        /\ Len(ListedIds) = Len(db)
        /\ \A i \in IdsOf(db) :
             Cardinality({k \in 1..Len(db) : db[k].id = i})
               = Cardinality({k \in 1..Len(ListedIds) : ListedIds[k] = i})
        /\ NoDuplicateIds(db) => Len(ListedIds) = Cardinality(IdsOf(db))
        /\ IF db = <<>> THEN out = <<Msg("the DB is empty", <<>>, 0)>>
           ELSE out[1] = Msg("IDs found:", <<>>, Len(db))

\* a listing of a store whose entries are not in ascending order of id
C6_Witness ==
    /\ last.op = "listIds"
    /\ Len(db) >= 2
    /\ StrLess(db[2].id, db[1].id)
    /\ Len(ListedIds) = Len(db)

----------------------------------------------------------------------------
(* C7 *)

\* what C7 says of a loadAll that returned, with the id of a file given by
\* first (TRUE: its name without the first .json; FALSE: without any)
LoadAllProcessed(first) ==
    LET named == SelectSeq(last.files, LAMBDA f : HasJson(f))
        ids == [k \in 1..Len(named) |->
                  IF first THEN WithoutFirstJson(named[k]) ELSE WithoutEveryJson(named[k])]
        loaded == {ids[k] : k \in 1..Len(ids)}
        base == IF last.trunc THEN <<>> ELSE pre
    IN  /\ ProcessedIds = ids
        /\ SkippedNames = SelectSeq(last.files, LAMBDA f : ~HasJson(f))
        /\ IdsOf(db) = IdsOf(base) \cup loaded
        /\ SelectSeq(db, LAMBDA e : e.id \notin loaded)
             = SelectSeq(base, LAMBDA e : e.id \notin loaded)

----------------------------------------------------------------------------
(* C9 *)

\* C9: remove(id) raises nothing and leaves every entry with another id as it
\* was; when no entry has the id, it reports that and leaves the store as it
\* was.
C9_RemoveTouchesOnlyItsId ==
    last.op = "remove" =>
        /\ err = ""
        /\ Others(db, last.id) = Others(pre, last.id)
        /\ last.id \notin IdsOf(pre) =>
             /\ db = pre
             /\ out = <<Msg("no data found for ID", last.id, 0)>>

\* a remove that took an entry away and left another
C9_Witness ==
    /\ last.op = "remove"
    /\ last.id \in IdsOf(pre)
    /\ db # pre
    /\ db # <<>>

----------------------------------------------------------------------------
(* C5 *)

\* the names the entries of d are extracted to
SavedNames(d) == {i \o JSON : i \in IdsOf(d)}

\* C5, as claimed, of a store with one entry per id: saveOne(directory, id)
\* and then loadOne of <directory>/<id>.json under the id, without
\* keepExisting, leaves the entry as it was; saveAll(directory), into a
\* directory then holding nothing but the extracted files, and then
\* loadAll(directory) with truncateFirst and without keepExisting leaves the
\* store with the entries it had.
C5_RoundTripStep ==
    /\ ( /\ last.op = "saveOne"
         /\ err = ""
         /\ Len(WithId(db, last.id)) = 1
         /\ last'.op = "loadOne"
         /\ last'.id = last.id
         /\ ~last'.keep
         /\ last'.path = last.path \o <<"/">> \o last.id \o JSON )
       => (err' = "" /\ WithId(db', last.id) = WithId(db, last.id))
    /\ ( /\ last.op = "saveAll"
         /\ err = ""
         /\ NoDuplicateIds(db)
         /\ ListDir(fs, last.path) \subseteq SavedNames(db)
         /\ last'.op = "loadAll"
         /\ last'.path = last.path
         /\ last'.trunc
         /\ ~last'.keep )
       => (err' = "" /\ DocsOf(db') = DocsOf(db))

C5_Claimed == [][C5_RoundTripStep]_vars

\* where the backslash separates path components the round trip holds
C5_OnWindows == [][os = "nt" => C5_RoundTripStep]_vars

----------------------------------------------------------------------------
(* C8 *)

\* C8, as claimed: saveAll(directory) raises nothing over a directory that
\* exists and warns of it, leaves the directory existing and, for every id of
\* the store, the file <id>.json in it, holding an entry of that id; saveOne
\* for an id the store lacks writes no file.
C8_SaveStep ==
    /\ last'.op = "saveAll" =>
         /\ err' = ""
         /\ last'.path \in dirs'
         /\ last'.path \in dirs =>
              PrintedIn(out', "warning: directory already exists")
         /\ \A i \in IdsOf(db') :
              /\ <<last'.path, i \o JSON>> \in DOMAIN fs'
              /\ fs'[<<last'.path, i \o JSON>>].data \in DocsOf(WithId(db', i))
    /\ (last'.op = "saveOne" /\ last'.id \notin IdsOf(db)) => fs' = fs

C8_Claimed == [][C8_SaveStep]_vars

\* where the backslash separates path components the files are in the directory
C8_OnWindows == [][os = "nt" => C8_SaveStep]_vars

----------------------------------------------------------------------------
(* C10 *)

\* C10, as claimed, of one step of main: the steps come in the order load,
\* extract, delete, list (an exception ends the run); without --loadData the
\* load step leaves the store alone, whatever --truncateDB and --keepExisting
\* are; extract writes the store the load left and leaves it alone; delete
\* with --byID leaves all but the entries of that id, without it nothing;
\* list prints the store the delete left.
C10_MainStep ==
    /\ \/ <<pc, pc'>> \in {<<"load", "extract">>, <<"extract", "delete">>,
                           <<"delete", "list">>, <<"list", "done">>}
       \/ pc' = "done" /\ err' # ""
    /\ (pc = "load" /\ ~args.loadData) => db' = db
    /\ pc = "extract" =>
         /\ db' = db
         /\ args.extractData =>
              fs' = IF by_id(args)
                    THEN save_sample(os, dirs, fs, db, args.samplesDir, args.byID,
                                     args.jsonIndent).fs
                    ELSE save_samples(os, dirs, fs, db, args.samplesDir,
                                      args.jsonIndent).fs
    /\ pc = "delete" =>
         db' = IF ~args.deleteData THEN db
               ELSE IF args.byIDGiven THEN Others(db, args.byID)
               ELSE <<>>
    /\ pc = "list" =>
         /\ db' = db
         /\ args.listIDs => out' = list_ids(db)

C10_Claimed == [][C10_MainStep]_vars

\* every run whose --byID, when given, is not empty does as claimed
C10_NonEmptyByID == [][(args.byIDGiven => args.byID # <<>>) => C10_MainStep]_vars

====
